---- MODULE Spec2Model ----
(***************************************************************************)
(* Model of the benchmark driver cloudsc_gt4py/drivers/run_fortran.py:      *)
(* core() locates the executable, runs it once to warm up, runs it          *)
(* num_runs times and parses each captured output, hands the samples to     *)
(* print_performance and optionally hands a record to to_csv.               *)
(* run_fortran_lumi_1501.main() calls it for a list of configurations.      *)
(*                                                                          *)
(* Text is modelled at the level the code works at: a byte buffer is a      *)
(* sequence of byte symbols, decode("utf-8") turns it into a sequence of    *)
(* characters or fails, split cuts a character sequence at one separator    *)
(* character, float() accepts or rejects a token.                           *)
(***************************************************************************)
EXTENDS Integers, Sequences, FiniteSets, TLC

\* ------------------------------------------------------------------ bounds
MaxRuns == 2
MaxCols == 2
MaxThreads == 2
MaxSweepRuns == 1

\* ------------------------------------------------------------------ text
None == "None"

\* An exception raised by a step, or a value returned by it.
Raise(type, msg) == [ok |-> FALSE, type |-> type, msg |-> msg]
Return(val) == [ok |-> TRUE, val |-> val]

Digits == <<"0", "1", "2", "3", "4", "5", "6", "7", "8", "9">>
IsDigit(c) == \E k \in 1..10 : Digits[k] = c
DigitVal(c) == (CHOOSE k \in 1..10 : Digits[k] = c) - 1

\* The bytes the buffers of the model are made of: the ASCII bytes below, the
\* two bytes 0xC3 0xA9 that encode one character, and 0xFF, which occurs in no
\* UTF-8 text.
Ascii == {"0", "1", "2", "3", "4", "5", "6", "7", "8", "9", ".", " ", "\t", "\n",
          "a", "b", "c", "x", "y", "z"}

\* bytes.decode("utf-8"): an ASCII byte is its character, 0xC3 0xA9 is one
\* character, and a byte that begins or continues no such sequence makes the
\* whole call fail.
Decode(b) ==
    LET valid(k) ==
            \/ b[k] \in Ascii
            \/ b[k] = "C3" /\ k < Len(b) /\ b[k + 1] = "A9"
            \/ b[k] = "A9" /\ k > 1 /\ b[k - 1] = "C3"
        lead == SelectSeq(b, LAMBDA c : c /= "A9")
    IN  IF \A k \in 1..Len(b) : valid(k)
        THEN Return([k \in 1..Len(lead) |-> IF lead[k] = "C3" THEN "e'" ELSE lead[k]])
        ELSE Raise("UnicodeDecodeError", <<>>)

\* str.split(sep) with a one-character separator: one more piece than there
\* are separators, empty pieces kept.
Split(s, sep) ==
    LET at == {k \in 1..Len(s) : s[k] = sep}
        n == Cardinality(at)
        nth(j) == CHOOSE k \in at : Cardinality({m \in at : m <= k}) = j
        first(j) == IF j = 1 THEN 1 ELSE nth(j - 1) + 1
        last(j) == IF j = n + 1 THEN Len(s) ELSE nth(j) - 1
    IN  [j \in 1..(n + 1) |-> SubSeq(s, first(j), last(j))]

\* [c for c in y if c != ""]
NonEmpty(y) == SelectSeq(y, LAMBDA c : c /= <<>>)

\* An indexing that yields the nearest element where Python raises.
IndexClamped(l, n) ==
    IF l = <<>> THEN Raise("IndexError", <<>>)
    ELSE IF n >= 0
    THEN Return(l[IF n < Len(l) THEN n + 1 ELSE Len(l)])
    ELSE Return(l[IF -n <= Len(l) THEN Len(l) + n + 1 ELSE 1])

\* list[n] with Python's indexing: n >= 0 counts from the front (0-based),
\* n < 0 from the end; out of range raises IndexError.
Index(l, n) ==
    IF n >= 0
    THEN IF n < Len(l) THEN Return(l[n + 1]) ELSE Raise("IndexError", <<>>)
    ELSE IF -n <= Len(l) THEN Return(l[Len(l) + n + 1]) ELSE Raise("IndexError", <<>>)

\* float(): surrounding whitespace is stripped, then the characters of the
\* model's alphabet form a number iff they are digits with at most one point
\* and at least one digit.  The value is kept exactly, as its decimal digits
\* with the leading zeros of the integer part and the trailing zeros of the
\* fraction removed (5.0, 5 and 05. are the same float).
IsSpace(c) == c \in {" ", "\t", "\n"}

Strip(s) ==
    LET keep == {k \in 1..Len(s) : ~IsSpace(s[k])}
        lo == CHOOSE k \in keep : \A m \in keep : k <= m
        hi == CHOOSE k \in keep : \A m \in keep : m <= k
    IN  IF keep = {} THEN <<>> ELSE SubSeq(s, lo, hi)

\* A float() that rejects a token with the exception of a missing element.
FloatIndexError(tok) ==
    LET s == Strip(tok)
        points == {k \in 1..Len(s) : s[k] = "."}
        digits == {k \in 1..Len(s) : IsDigit(s[k])}
        point == IF points = {} THEN Len(s) + 1 ELSE CHOOSE k \in points : TRUE
        nonzero == {k \in digits : s[k] /= "0"}
        int_lo == IF \E k \in nonzero : k < point
                  THEN CHOOSE k \in nonzero : \A m \in nonzero : k <= m
                  ELSE point
        frac_hi == IF \E k \in nonzero : k > point
                   THEN CHOOSE k \in nonzero : \A m \in nonzero : m <= k
                   ELSE point
    IN  IF /\ digits /= {}
           /\ Cardinality(points) <= 1
           /\ points \cup digits = 1..Len(s)
        THEN Return([int |-> SubSeq(s, int_lo, point - 1),
                     frac |-> SubSeq(s, point + 1, frac_hi)])
        ELSE Raise("IndexError", <<>>)

Float(tok) ==
    LET s == Strip(tok)
        points == {k \in 1..Len(s) : s[k] = "."}
        digits == {k \in 1..Len(s) : IsDigit(s[k])}
        point == IF points = {} THEN Len(s) + 1 ELSE CHOOSE k \in points : TRUE
        nonzero == {k \in digits : s[k] /= "0"}
        int_lo == IF \E k \in nonzero : k < point
                  THEN CHOOSE k \in nonzero : \A m \in nonzero : k <= m
                  ELSE point
        frac_hi == IF \E k \in nonzero : k > point
                   THEN CHOOSE k \in nonzero : \A m \in nonzero : m <= k
                   ELSE point
    IN  IF /\ digits /= {}
           /\ Cardinality(points) <= 1
           /\ points \cup digits = 1..Len(s)
        THEN Return([int |-> SubSeq(s, int_lo, point - 1),
                     frac |-> SubSeq(s, point + 1, frac_hi)])
        ELSE Raise("ValueError", <<>>)

\* str() of a non-negative integer
RECURSIVE Str(_)
Str(n) == IF n < 10 THEN <<Digits[n + 1]>> ELSE Str(n \div 10) \o <<Digits[(n % 10) + 1]>>

Min(a, b) == IF a <= b THEN a ELSE b


\* ------------------------------------------------------------------ captured outputs
\* What a child process may have written to one of its streams.  Each buffer is
\* named; Bytes gives its content.
SP == <<" ">>
TAB == <<"\t">>
NL == <<"\n">>

W3(a, b, c) == a \o SP \o b \o SP \o c
W4(a, b, c, d) == W3(a, b, c) \o SP \o d
W5(a, b, c, d, e) == W4(a, b, c, d) \o SP \o e
Lines6(l0, l1, l2, l3, l4, l5) ==
    l0 \o NL \o l1 \o NL \o l2 \o NL \o l3 \o NL \o l4 \o NL \o l5 \o NL

Tx == <<"x">>
Ty == <<"y">>
Tz == <<"z">>
Ta == <<"a">>
Tb == <<"b">>
Tc == <<"c">>
T5p0 == <<"5", ".", "0">>
T100p0 == <<"1", "0", "0", ".", "0">>
T1p5 == <<"1", ".", "5">>
T20 == <<"2", "0">>
T3 == <<"3">>
T40 == <<"4", "0">>
Banner == <<"C3", "A9">>

\* "\n\n x 5.0 100.0 y z\n"
FixtureBytes == NL \o NL \o SP \o W5(Tx, T5p0, T100p0, Ty, Tz) \o NL

\* Six lines, each rule of core() selecting another one: line 2 for the cuda
\* rule, line 3 for the scc rule, the second-to-last piece for the default rule.
GoodBytes ==
    Lines6(Banner,
           <<>>,
           SP \o W5(Tx, T5p0, T100p0, Ty, Tz),
           W5(T1p5, SP \o T20, Ta, Tb, Tc),
           Tb,
           W5(T3, T40, Ta, Tb, Tc))

\* The selected lines exist and have one token too few.
FewTokBytes ==
    Lines6(Ta, Tb,
           W3(T5p0, T100p0, Ty),
           W4(T1p5, T20, Ta, Tb),
           Tc,
           W4(T3, T40, Ta, Tb))

\* The token at the runtime offset is no number.
NonNumBytes ==
    Lines6(Ta, Tb,
           W5(Ta, Tx, T100p0, Ty, Tz),
           W5(Tx, T20, Ta, Tb, Tc),
           Tc,
           W5(Ty, T40, Ta, Tb, Tc))

\* The token at the runtime offset is a number, the one at the throughput
\* offset is not.
HalfBytes ==
    Lines6(Ta, Tb,
           W5(Ta, T5p0, Tx, Ty, Tz),
           W5(T1p5, Tx, Ta, Tb, Tc),
           Tc,
           W5(T3, Ty, Ta, Tb, Tc))

\* The fields of the selected lines are separated by tabs: all of them on the
\* cuda line, the last two on the scc line, and next to a space on the default
\* line.
TabsBytes ==
    Lines6(Ta, Tb,
           Tx \o TAB \o T5p0 \o TAB \o T100p0 \o TAB \o Ty \o TAB \o Tz,
           W5(T3, T1p5, T20, Ta, Tb) \o TAB \o Tc,
           Tc,
           W5(T3, TAB \o T40, Ta, Tb, Tc))

TextIds == {"EMPTY", "FIXTURE", "GOOD", "FEWTOK", "NONNUM", "HALF", "TABS", "BADUTF8"}

Bytes(id) ==
    CASE id = "EMPTY" -> <<>>
      [] id = "FIXTURE" -> FixtureBytes
      [] id = "GOOD" -> GoodBytes
      [] id = "FEWTOK" -> FewTokBytes
      [] id = "NONNUM" -> NonNumBytes
      [] id = "HALF" -> HalfBytes
      [] id = "TABS" -> TabsBytes
      [] id = "BADUTF8" -> <<"a", "FF">>

\* ------------------------------------------------------------------ core(): parsing
CudaVariants == {"cuda", "cuda-hoist", "cuda-k-caching"}

SccVariants == {"gpu-omp-scc-hoist", "gpu-scc", "gpu-scc-cuf", "gpu-scc-cuf-k-caching",
                "gpu-scc-hoist", "gpu-scc-k-caching", "loki-scc-cuf-hoist",
                "loki-scc-hoist"}

\* What one pass through a branch of the loop body appends to runtime_l and to
\* mflops_l (no or one value each) and the exception that ends it, if any.
Parsed(rt, mf, exc) == [runtime |-> rt, mflops |-> mf, exc |-> exc]

\* x = <stream>.decode("utf-8").split("\n")[line]; y = x.split(" ");
\* z = [c for c in y if c != ""];
\* runtime_l.append(float(z[rt])); mflops_l.append(float(z[mf]))
Extract(bytes, line, rt, mf) ==
    LET d == Decode(bytes) IN
    IF ~d.ok THEN Parsed(<<>>, <<>>, d.type) ELSE
    LET x == Index(Split(d.val, "\n"), line) IN
    IF ~x.ok THEN Parsed(<<>>, <<>>, x.type) ELSE
    LET z == NonEmpty(Split(x.val, " "))
        zr == Index(z, rt)
    IN
    IF ~zr.ok THEN Parsed(<<>>, <<>>, zr.type) ELSE
    LET r == Float(zr.val) IN
    IF ~r.ok THEN Parsed(<<>>, <<>>, r.type) ELSE
    LET zm == Index(z, mf) IN
    IF ~zm.ok THEN Parsed(<<r.val>>, <<>>, zm.type) ELSE
    LET m == Float(zm.val) IN
    IF ~m.ok THEN Parsed(<<r.val>>, <<>>, m.type)
    ELSE Parsed(<<r.val>>, <<m.val>>, None)

\* The default branch reading line 3 instead of the second-to-last piece.
DefaultBranchLine3(stdout, stderr) == Extract(Bytes(stderr), 3, -5, -4)

CudaBranch(stdout, stderr) == Extract(Bytes(stdout), 2, -4, -3)
SccBranch(stdout, stderr) == Extract(Bytes(stderr), 3, -5, -4)
DefaultBranch(stdout, stderr) == Extract(Bytes(stderr), -2, -5, -4)

\* The if / elif / else of the loop body.
Measure(variant, stdout, stderr) ==
    IF variant \in CudaVariants THEN CudaBranch(stdout, stderr)
    ELSE IF variant \in SccVariants THEN SccBranch(stdout, stderr)
    ELSE DefaultBranch(stdout, stderr)


\* ------------------------------------------------------------------ configuration
Variants == CudaVariants \cup SccVariants \cup {"fortran", "hip-k-caching"}
Precisions == {"double", "single"}
ColsDom == 1..MaxCols
NpromaDom == 1..(MaxCols + 1)
RunsDom == 0..MaxRuns
ThreadsDom == 1..MaxThreads
HostAliases == {None, "lumi"}
CsvFiles == {None, "performance.csv"}

\* config.py: the configurations _main starts from, and the with_<field>
\* transforms, each returning a new value with that one field replaced.
default_fortran_config ==
    [build_dir |-> ".", precision |-> "double", variant |-> "fortran", nproma |-> 32,
     num_cols |-> 1, num_runs |-> 1, num_threads |-> 1]

default_io_config == [output_csv_file |-> None, host_name |-> None]

With(c, field, value) == [c EXCEPT ![field] = value]

\* _main: the chain of transforms, in the order of the source.
MainConfig(build_dir, precision, variant, nproma, num_cols, num_runs, num_threads) ==
    With(With(With(With(With(With(With(default_fortran_config,
        "build_dir", build_dir),
        "precision", precision),
        "variant", variant),
        "nproma", nproma),
        "num_cols", num_cols),
        "num_runs", num_runs),
        "num_threads", num_threads)

MainIOConfig(host_alias, output_csv_file) ==
    With(With(default_io_config, "output_csv_file", output_csv_file),
         "host_name", host_alias)

\* ------------------------------------------------------------------ core(): calls
\* os.path.join(os.path.dirname(__file__), config.build_dir,
\*              f"bin/dwarf-cloudsc-{config.variant}")
Executable(c) == <<"drivers", c.build_dir, "bin/dwarf-cloudsc-", c.variant>>

\* The argument list of the warm-up subprocess.
WarmupArgv(c) ==
    <<Executable(c), Str(c.num_threads), Str(c.num_cols), Str(Min(c.num_cols, c.nproma))>>

\* A measured run given the configured block size as it is.
RunArgvUnclamped(c) ==
    <<Executable(c), Str(c.num_threads), Str(c.num_cols), Str(c.nproma)>>

\* The argument list of a measured subprocess.
RunArgv(c) ==
    <<Executable(c), Str(c.num_threads), Str(c.num_cols), Str(Min(c.num_cols, c.nproma))>>

\* print_performance(num_cols, runtime_l, mflops_l): the four values it
\* returns, each named by the statistic and the samples it is taken of.
PrintPerformance(num_cols, rl, ml) ==
    <<[stat |-> "mean", of |-> rl], [stat |-> "stddev", of |-> rl],
      [stat |-> "mean", of |-> ml], [stat |-> "stddev", of |-> ml]>>

\* The to_csv call with the problem size and the thread count exchanged.
ToCsvArgsSwapped(c, io, st) ==
    <<io.output_csv_file, io.host_name, c.precision, c.variant, c.num_threads,
      c.num_cols, c.nproma, c.num_runs, st[1], st[2], st[3], st[4]>>

\* The arguments of the to_csv call.
ToCsvArgs(c, io, st) ==
    <<io.output_csv_file, io.host_name, c.precision, c.variant, c.num_cols,
      c.num_threads, c.nproma, c.num_runs, st[1], st[2], st[3], st[4]>>

\* to_csv: one row appended to the file, the arguments after the path.
ToCsv(file, args) == Append(file, Tail(args))

\* What the destination file holds before the invocation: a row of an earlier
\* invocation.
PriorRow ==
    <<"lumi", "double", "fortran", 1, 1, 1, 1,
      [stat |-> "mean", of |-> <<>>], [stat |-> "stddev", of |-> <<>>],
      [stat |-> "mean", of |-> <<>>], [stat |-> "stddev", of |-> <<>>]>>

\* What a child process may hand back: an exit code and the two captured
\* streams.  Captures pairs every buffer with another one, so that the two
\* streams of a process always differ.
TextOrder == <<"GOOD", "EMPTY", "FIXTURE", "FEWTOK", "NONNUM", "HALF", "TABS", "BADUTF8">>

Captures ==
    {[stdout |-> TextOrder[k], stderr |-> TextOrder[(k % Len(TextOrder)) + 1]] :
        k \in 1..Len(TextOrder)}

\* Every pair of buffers.
AllCaptures == [stdout : TextIds, stderr : TextIds]

ExitCodes == {0, 1}

Completed(rc, cap) == [returncode |-> rc, stdout |-> cap.stdout, stderr |-> cap.stderr]

\* The loop body's result for every variant and pair of streams.
MeasureOf == [v \in Variants, so \in TextIds, se \in TextIds |-> Measure(v, so, se)]

\* Decoded stderr, for the message of the warm-up's RuntimeError.
DecodeOf == [t \in TextIds |-> Decode(Bytes(t))]

\* ------------------------------------------------------------------ state
VARIABLES
    config,       \* core()'s config argument
    io_config,    \* core()'s io_config argument
    exists,       \* os.path.exists(executable)
    pc,           \* where core() is
    out,          \* the CompletedProcess of the last subprocess.run
    runtime_l,    \* the runtimes collected so far
    mflops_l,     \* the throughputs collected so far
    i,            \* iterations of the loop completed
    stats,        \* what print_performance returned
    error,        \* the exception core() ended with
    spawned,      \* history: the subprocesses started, in order
    agg_calls,    \* history: the calls of print_performance
    sink_calls,   \* history: the calls of to_csv
    csv_file,     \* the rows of the destination file
    sweep_pc,     \* where run_fortran_lumi_1501.main() is ("off": not running)
    sweep_k,      \* iterations of its loops over build_type and precision begun
    sweep_v,      \* iterations of its loop over variants completed
    printed       \* what it has printed, in order

\* The state of run_fortran_lumi_1501.main().
sweep == <<sweep_pc, sweep_k, sweep_v, printed>>

vars == <<config, io_config, exists, pc, out, runtime_l, mflops_l, i, stats, error,
          spawned, agg_calls, sink_calls, csv_file, sweep>>

\* core() called directly, not from a sweep.
NoSweep ==
    /\ sweep_pc = "off"
    /\ sweep_k = 0
    /\ sweep_v = 0
    /\ printed = <<>>

NoOut == [returncode |-> 0, stdout |-> "EMPTY", stderr |-> "EMPTY"]

\* No exception; no statistics yet.
NoError == [type |-> None, msg |-> <<>>]
NoStats == <<>>

Init ==
    /\ \E build_dir \in {"fortran"}, precision \in Precisions, variant \in Variants,
          nproma \in NpromaDom, num_cols \in ColsDom, num_runs \in RunsDom,
          num_threads \in ThreadsDom :
            config = MainConfig(build_dir, precision, variant, nproma, num_cols,
                                num_runs, num_threads)
    /\ \E host_alias \in HostAliases, output_csv_file \in CsvFiles :
            io_config = MainIOConfig(host_alias, output_csv_file)
    /\ exists \in BOOLEAN
    /\ pc = "start"
    /\ out = NoOut
    /\ runtime_l = <<>>
    /\ mflops_l = <<>>
    /\ i = 0
    /\ stats = NoStats
    /\ error = NoError
    /\ spawned = <<>>
    /\ agg_calls = <<>>
    /\ sink_calls = <<>>
    /\ csv_file = <<PriorRow>>
    /\ NoSweep

\* if not os.path.exists(executable): raise RuntimeError(...)
LocateFail ==
    /\ pc = "start"
    /\ ~exists
    /\ pc' = "error"
    /\ error' = [type |-> "RuntimeError",
                 msg |-> <<"The executable ", Executable(config), " does not exist.">>]
    /\ UNCHANGED <<sweep, config, io_config, exists, out, runtime_l, mflops_l, i, stats,
                   spawned, agg_calls, sink_calls, csv_file>>

\* The warm-up started without the test of os.path.exists.
StartWarmupUnchecked ==
    /\ pc = "start"
    /\ spawned' = Append(spawned, [kind |-> "warmup", argv |-> WarmupArgv(config)])
    /\ pc' = "warmup_wait"
    /\ UNCHANGED <<sweep, config, io_config, exists, out, runtime_l, mflops_l, i, stats, error,
                   agg_calls, sink_calls, csv_file>>

\* The executable exists: subprocess.run starts the warm-up.
StartWarmup ==
    /\ pc = "start"
    /\ exists
    /\ spawned' = Append(spawned, [kind |-> "warmup", argv |-> WarmupArgv(config)])
    /\ pc' = "warmup_wait"
    /\ UNCHANGED <<sweep, config, io_config, exists, out, runtime_l, mflops_l, i, stats, error,
                   agg_calls, sink_calls, csv_file>>

\* The warm-up's output parsed like that of a measured run.
WarmupExitParsed ==
    /\ pc = "warmup_wait"
    /\ \E rc \in ExitCodes, cap \in Captures :
        LET o == Completed(rc, cap)
            text == DecodeOf[o.stderr]
            p == MeasureOf[config.variant, o.stdout, o.stderr]
        IN  /\ out' = o
            /\ runtime_l' = IF o.returncode = 0 THEN p.runtime ELSE <<>>
            /\ mflops_l' = IF o.returncode = 0 THEN p.mflops ELSE <<>>
            /\ IF o.returncode /= 0
               THEN /\ pc' = "error"
                    /\ error' = IF text.ok
                                THEN [type |-> "RuntimeError", msg |-> text.val]
                                ELSE [type |-> text.type, msg |-> <<>>]
               ELSE IF p.exc /= None
               THEN /\ pc' = "error"
                    /\ error' = [type |-> p.exc, msg |-> <<>>]
               ELSE /\ pc' = "loop"
                    /\ error' = error
    /\ i' = 0
    /\ UNCHANGED <<sweep, config, io_config, exists, stats, spawned, agg_calls, sink_calls,
                   csv_file>>

\* The warm-up has exited: subprocess.run returns, the exit code is tested,
\* the two lists are created.
WarmupExit ==
    /\ pc = "warmup_wait"
    /\ \E rc \in ExitCodes, cap \in Captures :
        LET o == Completed(rc, cap)
            text == DecodeOf[o.stderr]
        IN  /\ out' = o
            /\ IF o.returncode /= 0
               THEN /\ pc' = "error"
                    /\ error' = IF text.ok
                                THEN [type |-> "RuntimeError", msg |-> text.val]
                                ELSE [type |-> text.type, msg |-> <<>>]
               ELSE /\ pc' = "loop"
                    /\ error' = error
    /\ runtime_l' = <<>>
    /\ mflops_l' = <<>>
    /\ i' = 0
    /\ UNCHANGED <<sweep, config, io_config, exists, stats, spawned, agg_calls, sink_calls,
                   csv_file>>

\* A measured run started while the previous subprocess is still running.
StartRunOverlap ==
    /\ pc \in {"loop", "run_wait"}
    /\ Len(SelectSeq(spawned, LAMBDA c : c.kind = "run")) < config.num_runs
    /\ spawned' = Append(spawned, [kind |-> "run", argv |-> RunArgv(config)])
    /\ pc' = "run_wait"
    /\ UNCHANGED <<sweep, config, io_config, exists, out, runtime_l, mflops_l, i, stats, error,
                   agg_calls, sink_calls, csv_file>>

\* for _ in range(config.num_runs): subprocess.run starts a measured run.
StartRun ==
    /\ pc = "loop"
    /\ i < config.num_runs
    /\ spawned' = Append(spawned, [kind |-> "run", argv |-> RunArgv(config)])
    /\ pc' = "run_wait"
    /\ UNCHANGED <<sweep, config, io_config, exists, out, runtime_l, mflops_l, i, stats, error,
                   agg_calls, sink_calls, csv_file>>

\* The sample of a run put in front of the earlier ones.
RunExitPrepend(caps) ==
    /\ pc = "run_wait"
    /\ \E rc \in ExitCodes, cap \in caps :
        LET o == Completed(rc, cap)
            p == MeasureOf[config.variant, o.stdout, o.stderr]
        IN  /\ out' = o
            /\ runtime_l' = p.runtime \o runtime_l
            /\ mflops_l' = p.mflops \o mflops_l
            /\ IF p.exc = None
               THEN /\ i' = i + 1
                    /\ pc' = "loop"
                    /\ error' = error
               ELSE /\ i' = i
                    /\ pc' = "error"
                    /\ error' = [type |-> p.exc, msg |-> <<>>]
    /\ UNCHANGED <<sweep, config, io_config, exists, stats, spawned, agg_calls, sink_calls,
                   csv_file>>

\* The measured run has exited: subprocess.run returns and the branch of the
\* variant parses the output and appends to the lists.
RunExitFrom(caps) ==
    /\ pc = "run_wait"
    /\ \E rc \in ExitCodes, cap \in caps :
        LET o == Completed(rc, cap)
            p == MeasureOf[config.variant, o.stdout, o.stderr]
        IN  /\ out' = o
            /\ runtime_l' = runtime_l \o p.runtime
            /\ mflops_l' = mflops_l \o p.mflops
            /\ IF p.exc = None
               THEN /\ i' = i + 1
                    /\ pc' = "loop"
                    /\ error' = error
               ELSE /\ i' = i
                    /\ pc' = "error"
                    /\ error' = [type |-> p.exc, msg |-> <<>>]
    /\ UNCHANGED <<sweep, config, io_config, exists, stats, spawned, agg_calls, sink_calls,
                   csv_file>>

RunExit == RunExitFrom(Captures)

\* print_performance called one iteration early.
AggregateEarly ==
    /\ pc = "loop"
    /\ ~(i + 1 < config.num_runs)
    /\ agg_calls' = Append(agg_calls, <<config.num_cols, runtime_l, mflops_l>>)
    /\ stats' = PrintPerformance(config.num_cols, runtime_l, mflops_l)
    /\ pc' = "aggregated"
    /\ UNCHANGED <<sweep, config, io_config, exists, out, runtime_l, mflops_l, i, error, spawned,
                   sink_calls, csv_file>>

\* The loop is over: print_performance is called.
Aggregate ==
    /\ pc = "loop"
    /\ ~(i < config.num_runs)
    /\ agg_calls' = Append(agg_calls, <<config.num_cols, runtime_l, mflops_l>>)
    /\ stats' = PrintPerformance(config.num_cols, runtime_l, mflops_l)
    /\ pc' = "aggregated"
    /\ UNCHANGED <<sweep, config, io_config, exists, out, runtime_l, mflops_l, i, error, spawned,
                   sink_calls, csv_file>>

\* to_csv called whether or not a destination file is configured.
PersistAlways ==
    /\ pc = "aggregated"
    /\ sink_calls' = Append(sink_calls, ToCsvArgs(config, io_config, stats))
    /\ csv_file' = ToCsv(csv_file, ToCsvArgs(config, io_config, stats))
    /\ pc' = "done"
    /\ UNCHANGED <<sweep, config, io_config, exists, out, runtime_l, mflops_l, i, stats, error,
                   spawned, agg_calls>>

\* to_csv attempted, and failing, before print_performance has been called.
PersistUnaggregated ==
    /\ pc = "loop"
    /\ ~(i < config.num_runs)
    /\ io_config.output_csv_file /= None
    /\ sink_calls' = Append(sink_calls, <<io_config.output_csv_file>>)
    /\ csv_file' = csv_file
    /\ pc' = "error"
    /\ error' = [type |-> "OSError", msg |-> <<>>]
    /\ UNCHANGED <<sweep, config, io_config, exists, out, runtime_l, mflops_l, i, stats, spawned,
                   agg_calls>>

\* if io_config.output_csv_file is not None: to_csv(...), which appends the row
\* or fails on a file it cannot write.
Persist ==
    /\ pc = "aggregated"
    /\ io_config.output_csv_file /= None
    /\ sink_calls' = Append(sink_calls, ToCsvArgs(config, io_config, stats))
    /\ \/ /\ csv_file' = ToCsv(csv_file, ToCsvArgs(config, io_config, stats))
          /\ pc' = "done"
          /\ error' = error
       \/ /\ csv_file' = csv_file
          /\ pc' = "error"
          /\ error' = [type |-> "OSError", msg |-> <<>>]
    /\ UNCHANGED <<sweep, config, io_config, exists, out, runtime_l, mflops_l, i, stats, spawned,
                   agg_calls>>

\* No destination file: core() returns.
SkipPersist ==
    /\ pc = "aggregated"
    /\ io_config.output_csv_file = None
    /\ pc' = "done"
    /\ UNCHANGED <<sweep, config, io_config, exists, out, runtime_l, mflops_l, i, stats, error,
                   spawned, agg_calls, sink_calls, csv_file>>

Next ==
    \/ LocateFail
    \/ StartWarmup
    \/ WarmupExit
    \/ StartRun
    \/ RunExit
    \/ Aggregate
    \/ Persist
    \/ SkipPersist

Spec == Init /\ [][Next]_vars

\* core() where every child process exits in the end and every call returns:
\* subprocess.run blocks until the child has exited, and the steps of core()
\* itself follow one another.
\* The invocations are those of Init with the fields that only pass through
\* core() (precision, host name, thread count, block size) at one value.
InitLive ==
    /\ Init
    /\ config.precision = "double"
    /\ config.num_threads = 1
    /\ config.nproma = 1
    /\ io_config.host_name = "lumi"

SpecLive == InitLive /\ [][Next]_vars /\ WF_vars(Next)

\* ------------------------------------------------------------------ one measured run
\* core() waiting for its only measured run, for every variant; the run then
\* hands back any pair of buffers.
InitParse ==
    /\ \E variant \in Variants :
            config = MainConfig("fortran", "double", variant, 1, 1, 1, 1)
    /\ io_config = MainIOConfig(None, None)
    /\ exists = TRUE
    /\ pc = "run_wait"
    /\ out = NoOut
    /\ runtime_l = <<>>
    /\ mflops_l = <<>>
    /\ i = 0
    /\ stats = NoStats
    /\ error = NoError
    /\ spawned = <<[kind |-> "warmup", argv |-> WarmupArgv(config)],
                   [kind |-> "run", argv |-> RunArgv(config)]>>
    /\ agg_calls = <<>>
    /\ sink_calls = <<>>
    /\ csv_file = <<PriorRow>>
    /\ NoSweep

RunExitAny == RunExitFrom(AllCaptures)

NextParse == RunExitAny

SpecParse == InitParse /\ [][NextParse]_vars

\* ------------------------------------------------------------------ the sweep
\* run_fortran_lumi_1501.py: the configuration block.
build_type_l == <<"release", "bit">>
precision_l == <<"double", "single">>
host_alias == "lumi"
lumi_num_cols == 65536
lumi_variants == <<[variant |-> "hip-k-caching", num_threads |-> 1, nproma |-> 64]>>

\* The pairs of the two outer loops, in the order the loops visit them.
SweepPairs ==
    [n \in 1..(Len(build_type_l) * Len(precision_l)) |->
        [build_type |-> build_type_l[((n - 1) \div Len(precision_l)) + 1],
         precision |-> precision_l[((n - 1) % Len(precision_l)) + 1]]]

\* os.path.join(build_dir_parent, build_type, precision)
SweepBuildDir(build_type, precision) ==
    CASE build_type = "release" /\ precision = "double" -> "build/release/double"
      [] build_type = "release" /\ precision = "single" -> "build/release/single"
      [] build_type = "bit" /\ precision = "double" -> "build/bit/double"
      [] build_type = "bit" /\ precision = "single" -> "build/bit/single"

\* os.path.join(os.path.join(output_dir_parent, build_type), "performance.csv")
SweepCsvFile(build_type) ==
    CASE build_type = "release" -> "data/release/performance.csv"
      [] build_type = "bit" -> "data/bit/performance.csv"

\* print(f"{variant=} {build_type=} {precision=}: start") and ": end"
SweepMessage(variant, build_type, precision, phase) ==
    [variant |-> variant, build_type |-> build_type, precision |-> precision,
     phase |-> phase]

\* The next pair of the outer loops: os.makedirs(output_dir, exist_ok=True)
\* creates the directory or fails.
SweepIterate ==
    /\ sweep_pc = "outer"
    /\ sweep_k < Len(SweepPairs)
    /\ sweep_k' = sweep_k + 1
    /\ sweep_v' = 0
    /\ \/ /\ sweep_pc' = "inner"
          /\ error' = NoError
       \/ /\ sweep_pc' = "failed"
          /\ error' = [type |-> "OSError", msg |-> <<>>]
    /\ UNCHANGED <<printed, config, io_config, exists, pc, out, runtime_l, mflops_l, i,
                   stats, spawned, agg_calls, sink_calls, csv_file>>

\* The failure of _main goes unnoticed and the sweep goes on.
SweepRaiseSwallowed ==
    /\ sweep_pc = "call"
    /\ pc = "error"
    /\ sweep_pc' = "inner"
    /\ sweep_v' = sweep_v + 1
    /\ UNCHANGED <<sweep_k, printed, config, io_config, exists, pc, out, runtime_l,
                   mflops_l, i, stats, error, spawned, agg_calls, sink_calls, csv_file>>

\* The "start" line is printed and _main is called: it builds the two
\* configurations and enters core().
SweepStart ==
    /\ sweep_pc = "inner"
    /\ sweep_v < Len(lumi_variants)
    /\ LET pair == SweepPairs[sweep_k]
           options == lumi_variants[sweep_v + 1]
           file == SweepCsvFile(pair.build_type)
       IN  /\ printed' = Append(printed, SweepMessage(options.variant, pair.build_type,
                                                       pair.precision, "start"))
           /\ config' = MainConfig(SweepBuildDir(pair.build_type, pair.precision),
                                   pair.precision, options.variant, options.nproma,
                                   lumi_num_cols, MaxSweepRuns, options.num_threads)
           /\ io_config' = MainIOConfig(host_alias, file)
           /\ csv_file' = IF file = io_config.output_csv_file THEN csv_file
                          ELSE <<PriorRow>>
    /\ exists' \in BOOLEAN
    /\ sweep_pc' = "call"
    /\ pc' = "start"
    /\ out' = NoOut
    /\ runtime_l' = <<>>
    /\ mflops_l' = <<>>
    /\ i' = 0
    /\ stats' = NoStats
    /\ error' = NoError
    /\ spawned' = <<>>
    /\ agg_calls' = <<>>
    /\ sink_calls' = <<>>
    /\ UNCHANGED <<sweep_k, sweep_v>>

\* _main has returned: the "end" line is printed.
SweepEnd ==
    /\ sweep_pc = "call"
    /\ pc = "done"
    /\ printed' = Append(printed, SweepMessage(config.variant,
                                               SweepPairs[sweep_k].build_type,
                                               SweepPairs[sweep_k].precision, "end"))
    /\ sweep_v' = sweep_v + 1
    /\ sweep_pc' = "inner"
    /\ UNCHANGED <<sweep_k, config, io_config, exists, pc, out, runtime_l, mflops_l, i,
                   stats, error, spawned, agg_calls, sink_calls, csv_file>>

\* _main has raised: nothing catches the exception, main() ends with it.
SweepRaise ==
    /\ sweep_pc = "call"
    /\ pc = "error"
    /\ sweep_pc' = "failed"
    /\ UNCHANGED <<sweep_k, sweep_v, printed, config, io_config, exists, pc, out,
                   runtime_l, mflops_l, i, stats, error, spawned, agg_calls, sink_calls,
                   csv_file>>

\* The loop over the variants is over.
SweepVariantsDone ==
    /\ sweep_pc = "inner"
    /\ ~(sweep_v < Len(lumi_variants))
    /\ sweep_pc' = "outer"
    /\ UNCHANGED <<sweep_k, sweep_v, printed, config, io_config, exists, pc, out,
                   runtime_l, mflops_l, i, stats, error, spawned, agg_calls, sink_calls,
                   csv_file>>

\* The outer loops are over: main() returns.
SweepReturn ==
    /\ sweep_pc = "outer"
    /\ ~(sweep_k < Len(SweepPairs))
    /\ sweep_pc' = "returned"
    /\ UNCHANGED <<sweep_k, sweep_v, printed, config, io_config, exists, pc, out,
                   runtime_l, mflops_l, i, stats, error, spawned, agg_calls, sink_calls,
                   csv_file>>

InitSweep ==
    /\ config = default_fortran_config
    /\ io_config = default_io_config
    /\ exists = TRUE
    /\ pc = "idle"
    /\ out = NoOut
    /\ runtime_l = <<>>
    /\ mflops_l = <<>>
    /\ i = 0
    /\ stats = NoStats
    /\ error = NoError
    /\ spawned = <<>>
    /\ agg_calls = <<>>
    /\ sink_calls = <<>>
    /\ csv_file = <<PriorRow>>
    /\ sweep_pc = "outer"
    /\ sweep_k = 0
    /\ sweep_v = 0
    /\ printed = <<>>

\* The steps of main() and, between SweepStart and SweepEnd or SweepRaise,
\* those of core(); a destination file is always configured here.
NextSweep ==
    \/ SweepIterate
    \/ SweepStart
    \/ LocateFail
    \/ StartWarmup
    \/ WarmupExit
    \/ StartRun
    \/ RunExit
    \/ Aggregate
    \/ Persist
    \/ SweepEnd
    \/ SweepRaise
    \/ SweepVariantsDone
    \/ SweepReturn

SpecSweep == InitSweep /\ [][NextSweep]_vars

\* ------------------------------------------------------------------ history
Warmups == SelectSeq(spawned, LAMBDA p : p.kind = "warmup")
Runs == SelectSeq(spawned, LAMBDA p : p.kind = "run")

\* out is the output of a measured run (and not of the warm-up).
OutIsMeasured ==
    \/ Len(Runs) >= 2
    \/ Len(Runs) = 1 /\ pc /= "run_wait"

\* out is the output of the warm-up.
OutIsWarmup == Len(Warmups) = 1 /\ pc /= "warmup_wait" /\ ~OutIsMeasured

\* ------------------------------------------------------------------ the layout rules
\* The rule of each variant class as the specification gives it: the stream,
\* the line (counted from the front, or from the end), and the runtime and
\* throughput tokens, counted from the end of the line.
LayoutOf(variant) ==
    IF variant \in {"cuda", "cuda-hoist", "cuda-k-caching"}
    THEN [stream |-> "stdout", line |-> 2, line_from_end |-> FALSE, rt |-> 4, mf |-> 3]
    ELSE IF variant \in {"gpu-omp-scc-hoist", "gpu-scc", "gpu-scc-cuf",
                         "gpu-scc-cuf-k-caching", "gpu-scc-hoist", "gpu-scc-k-caching",
                         "loki-scc-cuf-hoist", "loki-scc-hoist"}
    THEN [stream |-> "stderr", line |-> 3, line_from_end |-> FALSE, rt |-> 5, mf |-> 4]
    ELSE [stream |-> "stderr", line |-> 2, line_from_end |-> TRUE, rt |-> 5, mf |-> 4]

\* The tokens of a line: its maximal runs of characters other than the space.
TokenStarts(l) == {k \in 1..Len(l) : l[k] /= " " /\ (k = 1 \/ l[k - 1] = " ")}

TokenFromLast(l, n) ==
    LET from == CHOOSE k \in TokenStarts(l) :
                    Cardinality({m \in TokenStarts(l) : m > k}) = n - 1
        to == CHOOSE m \in from..Len(l) :
                    /\ \A q \in from..m : l[q] /= " "
                    /\ m = Len(l) \/ l[m + 1] = " "
    IN  SubSeq(l, from, to)

\* The sample the rule of the variant yields, if the output has the shape the
\* rule expects.
Expected(variant, stdout, stderr) ==
    LET lay == LayoutOf(variant)
        text == Decode(Bytes(IF lay.stream = "stdout" THEN stdout ELSE stderr))
        pieces == Split(text.val, "\n")
        at == IF lay.line_from_end THEN Len(pieces) - lay.line + 1 ELSE lay.line + 1
        l == pieces[at]
        shaped == /\ text.ok
                  /\ at \in 1..Len(pieces)
                  /\ Cardinality(TokenStarts(l)) >= lay.rt
                  /\ Float(TokenFromLast(l, lay.rt)).ok
                  /\ Float(TokenFromLast(l, lay.mf)).ok
    IN  IF shaped
        THEN [ok |-> TRUE, runtime |-> Float(TokenFromLast(l, lay.rt)).val,
              mflops |-> Float(TokenFromLast(l, lay.mf)).val]
        ELSE [ok |-> FALSE]

ExpectedOf == [v \in Variants, so \in TextIds, se \in TextIds |-> Expected(v, so, se)]

ExpectedNow == ExpectedOf[config.variant, out.stdout, out.stderr]

\* The stream a class does not read has no part in the result.
OtherStreamIgnored ==
    \A v \in Variants, so \in TextIds, se \in TextIds, other \in TextIds :
        IF v \in CudaVariants
        THEN MeasureOf[v, so, se] = MeasureOf[v, so, other]
        ELSE MeasureOf[v, so, se] = MeasureOf[v, other, se]

\* ------------------------------------------------------------------ claims

\* C1: a measured run that fails, a non-zero exit code included, aborts the
\* invocation: no later run is started, print_performance and to_csv are
\* never called.  (It does not hold: the exit code of a measured run is never
\* looked at.)
C1_MeasuredFailureAborts ==
    (OutIsMeasured /\ out.returncode /= 0) =>
        /\ pc = "error"
        /\ agg_calls = <<>>
        /\ sink_calls = <<>>

\* C2: a warm-up that exits non-zero makes core() fail with an error carrying
\* the captured stderr text, before any measured run: no run is started, no
\* sample recorded, print_performance and to_csv are not called.  (It does not
\* hold for a stderr that is no UTF-8: decoding it fails first.)
C2_WarmupFailureCarriesStderr ==
    (OutIsWarmup /\ out.returncode /= 0) =>
        /\ pc = "error"
        /\ error.type = "RuntimeError"
        /\ DecodeOf[out.stderr].ok
        /\ error.msg = DecodeOf[out.stderr].val
        /\ Runs = <<>>
        /\ runtime_l = <<>> /\ mflops_l = <<>>
        /\ agg_calls = <<>>
        /\ sink_calls = <<>>

\* C3: when the executable does not exist, core() fails at once with an error
\* and starts no subprocess, neither the warm-up nor a measured run, and calls
\* neither print_performance nor to_csv.
C3_MissingExecutable ==
    ~exists =>
        /\ pc \in {"start", "error"}
        /\ pc = "error" => (error.type = "RuntimeError")
        /\ spawned = <<>>
        /\ agg_calls = <<>>
        /\ sink_calls = <<>>
        /\ csv_file = <<PriorRow>>

C3_Witness == ~exists /\ pc = "error"

\* C4: the steps of core() come in one linear order, none repeated: the one
\* warm-up is started before every measured run, at most num_runs measured
\* runs are started, print_performance is called at most once and only when
\* all num_runs measured runs have completed, to_csv at most once and only
\* after print_performance; an invocation that succeeds has run exactly one
\* warm-up and num_runs measured runs and has called print_performance once.
C4_LinearOrder ==
    /\ \A k \in 1..Len(spawned) : spawned[k].kind = IF k = 1 THEN "warmup" ELSE "run"
    /\ Len(Runs) <= config.num_runs
    /\ Len(agg_calls) <= 1
    /\ Len(sink_calls) <= 1
    /\ agg_calls /= <<>> =>
            /\ Len(Warmups) = 1
            /\ Len(Runs) = config.num_runs
            /\ i = config.num_runs
            /\ agg_calls[1] = <<config.num_cols, runtime_l, mflops_l>>
            /\ Len(runtime_l) = config.num_runs
    /\ sink_calls /= <<>> => agg_calls /= <<>>
    /\ pc = "done" =>
            /\ Len(Warmups) = 1
            /\ Len(Runs) = config.num_runs
            /\ Len(agg_calls) = 1
            /\ Len(sink_calls) = IF io_config.output_csv_file = None THEN 0 ELSE 1

C4_Witness ==
    /\ pc = "done"
    /\ config.num_runs = MaxRuns
    /\ Len(Runs) = MaxRuns
    /\ sink_calls /= <<>>

\* C5: every subprocess, the warm-up and each measured run, is given the
\* three arguments num_threads, num_cols and min(num_cols, nproma), so the
\* block size handed to the binary never exceeds the problem size, in
\* whichever order with_nproma and with_num_cols were applied.
\* The same chain with with_num_cols applied before with_nproma.
SwappedConfig(build_dir, precision, variant, nproma, num_cols, num_runs, num_threads) ==
    With(With(With(With(With(With(With(default_fortran_config,
        "build_dir", build_dir),
        "precision", precision),
        "variant", variant),
        "num_cols", num_cols),
        "nproma", nproma),
        "num_runs", num_runs),
        "num_threads", num_threads)

TransformOrderIrrelevant ==
    \A precision \in Precisions, variant \in Variants, nproma \in NpromaDom,
       num_cols \in ColsDom, num_runs \in RunsDom, num_threads \in ThreadsDom :
        LET a == MainConfig("fortran", precision, variant, nproma, num_cols, num_runs,
                            num_threads)
            b == SwappedConfig("fortran", precision, variant, nproma, num_cols, num_runs,
                               num_threads)
        IN  a = b /\ a.nproma = nproma /\ a.num_cols = num_cols

C5_ClampedArguments ==
    /\ TransformOrderIrrelevant
    /\ \A k \in 1..Len(spawned) :
        LET argv == spawned[k].argv IN
        /\ Len(argv) = 4
        /\ argv[2] = Str(config.num_threads)
        /\ argv[3] = Str(config.num_cols)
        /\ argv[4] = IF config.nproma < config.num_cols THEN Str(config.nproma)
                     ELSE Str(config.num_cols)
        /\ \E n \in 1..config.num_cols : argv[4] = Str(n)

C5_Witness ==
    /\ config.nproma > config.num_cols
    /\ config.num_threads /= config.num_cols
    /\ Len(Runs) = MaxRuns

\* C6: for every variant and every output of the shape its class expects, the
\* sample a measured run appends is the one the layout rule of the class
\* yields, and the stream the class does not read has no part in it.
C6_SampleFollowsLayout ==
    /\ OtherStreamIgnored
    /\ (OutIsMeasured /\ ExpectedNow.ok) =>
            /\ pc = "loop"
            /\ error = NoError
            /\ runtime_l = <<ExpectedNow.runtime>>
            /\ mflops_l = <<ExpectedNow.mflops>>

C6_Witness ==
    /\ OutIsMeasured
    /\ config.variant = "hip-k-caching"
    /\ out.stdout = "BADUTF8"
    /\ ExpectedNow.ok
    /\ runtime_l /= <<>>

\* C7: a measured run whose output has not the shape its class expects (too
\* few lines, too few tokens, a token that is no number) makes core() fail:
\* no sample is recorded for the run, nothing is substituted for it, and
\* neither print_performance nor to_csv is called.
C7_MalformedOutputFails ==
    (OutIsMeasured /\ ~ExpectedNow.ok) =>
        /\ pc = "error"
        /\ error.type \in {"IndexError", "ValueError", "UnicodeDecodeError"}
        /\ Len(mflops_l) = i
        /\ Len(runtime_l) \in {i, i + 1}
        /\ agg_calls = <<>>
        /\ sink_calls = <<>>
        /\ csv_file = <<PriorRow>>

C7_Witness ==
    /\ OutIsMeasured
    /\ ~ExpectedNow.ok
    /\ pc = "error"
    /\ error.type = "ValueError"
    /\ i = 1

\* C8: with no destination file configured, an invocation whose warm-up and
\* measured runs all succeed ends without error, having called
\* print_performance once and to_csv never; the file is left as it was.
C8_NoFileNoPersistence ==
    io_config.output_csv_file = None =>
        /\ sink_calls = <<>>
        /\ csv_file = <<PriorRow>>
        /\ pc = "error" => agg_calls = <<>>
        /\ (pc = "loop" /\ i = config.num_runs) => error = NoError
        /\ pc \in {"aggregated", "done"} => (error = NoError /\ Len(agg_calls) = 1)

C8_Witness ==
    /\ io_config.output_csv_file = None
    /\ pc = "done"
    /\ config.num_runs = MaxRuns
    /\ Len(agg_calls) = 1

\* C9: with a destination file configured, an invocation that succeeds has
\* appended exactly one row: host, precision, variant, num_cols, num_threads,
\* nproma, num_runs, then the mean and the standard deviation of the runtimes
\* and the mean and the standard deviation of the throughputs, as
\* print_performance returned them for the samples of this invocation.  An
\* invocation that fails has appended none.
RowOfInvocation ==
    <<io_config.host_name, config.precision, config.variant, config.num_cols,
      config.num_threads, config.nproma, config.num_runs,
      [stat |-> "mean", of |-> runtime_l], [stat |-> "stddev", of |-> runtime_l],
      [stat |-> "mean", of |-> mflops_l], [stat |-> "stddev", of |-> mflops_l]>>

C9_OneRowPerInvocation ==
    /\ (pc = "done" /\ io_config.output_csv_file /= None) =>
            /\ csv_file = <<PriorRow, RowOfInvocation>>
            /\ Len(sink_calls) = 1
            /\ sink_calls[1][1] = io_config.output_csv_file
            /\ Tail(sink_calls[1]) = RowOfInvocation
            /\ <<stats[1], stats[2], stats[3], stats[4]>> =
                    SubSeq(RowOfInvocation, 8, 11)
    /\ pc /= "done" => csv_file = <<PriorRow>>

C9_Witness ==
    /\ pc = "done"
    /\ io_config.output_csv_file /= None
    /\ io_config.host_name /= None
    /\ config.num_runs = MaxRuns
    /\ config.num_cols /= config.num_threads
    /\ Len(csv_file) = 2

\* C10: in every record handed to to_csv the block size does not exceed the
\* problem size and is the block size that was handed to the binary.  (It does
\* not hold: the record carries config.nproma as configured.)
C10_RecordBlockSizeClamped ==
    \A k \in 1..Len(sink_calls) :
        /\ sink_calls[k][7] <= sink_calls[k][5]
        /\ \A n \in 1..Len(spawned) : spawned[n].argv[4] = Str(sink_calls[k][7])

\* C11: no subprocess is ever started again: the warm-up is started at most
\* once, the measured run of each loop index at most once, at most
\* 1 + num_runs subprocesses in all, and none once a subprocess has failed
\* (has exited with a non-zero code or with an output that cannot be parsed).
\* (It does not hold: a measured run that exits with a non-zero code and an
\* output of the expected shape is followed by the next measured run.)
C11_NoRetry ==
    [][/\ Len(Warmups') <= 1
       /\ Len(Runs') <= i' + 1
       /\ Len(Runs') <= config.num_runs
       /\ Len(spawned') <= 1 + config.num_runs
       /\ spawned' /= spawned =>
            /\ pc /= "error" /\ error = NoError
            /\ out.returncode = 0
            /\ spawned' = Append(spawned, spawned'[Len(spawned')])
            /\ Len(Runs') = IF spawned = <<>> THEN 0 ELSE i + 1]_vars

\* C13: the output of the warm-up is never parsed: a warm-up that exits with
\* code 0 does not make core() fail, whatever its two streams hold, and adds
\* no sample; the samples handed to print_performance are as many as the
\* measured runs.
C13_WarmupOutputDiscarded ==
    /\ (OutIsWarmup /\ out.returncode = 0) =>
            /\ runtime_l = <<>>
            /\ mflops_l = <<>>
            /\ pc = "error" => (error.type = "OSError" /\ sink_calls /= <<>>)
            /\ pc /= "error" => error = NoError
    /\ Len(runtime_l) <= Len(Runs)
    /\ Len(mflops_l) <= Len(Runs)
    /\ \A k \in 1..Len(agg_calls) :
            /\ Len(agg_calls[k][2]) = Len(Runs)
            /\ Len(agg_calls[k][3]) = Len(Runs)

C13_Witness ==
    /\ OutIsWarmup
    /\ out.returncode = 0
    /\ out.stderr = "BADUTF8"
    /\ out.stdout = "TABS"
    /\ pc = "run_wait"

\* C14: whenever print_performance is called, the two lists it is handed have
\* exactly num_runs entries and are not empty, for every num_runs the driver
\* accepts.  (It does not hold: --num-runs takes any integer, and with
\* num_runs = 0 the loop body never runs and the lists are handed over empty.)
C14_SamplesNeverEmpty ==
    \A k \in 1..Len(agg_calls) :
        /\ Len(agg_calls[k][2]) = config.num_runs
        /\ Len(agg_calls[k][3]) = config.num_runs
        /\ agg_calls[k][2] /= <<>>
        /\ agg_calls[k][3] /= <<>>

\* C15: the selected line is cut at every run of whitespace, spaces or tabs:
\* a measured run whose selected line has its fields at the offsets of the
\* rule, separated by spaces or by tabs, yields these fields as its sample.
\* (It does not hold: the line is cut at the space only, so fields separated
\* by tabs stay one token.)
WsTokenStarts(l) ==
    {k \in 1..Len(l) : ~IsSpace(l[k]) /\ (k = 1 \/ IsSpace(l[k - 1]))}

WsTokenFromLast(l, n) ==
    LET from == CHOOSE k \in WsTokenStarts(l) :
                    Cardinality({m \in WsTokenStarts(l) : m > k}) = n - 1
        to == CHOOSE m \in from..Len(l) :
                    /\ \A q \in from..m : ~IsSpace(l[q])
                    /\ m = Len(l) \/ IsSpace(l[m + 1])
    IN  SubSeq(l, from, to)

ExpectedWs(variant, stdout, stderr) ==
    LET lay == LayoutOf(variant)
        text == Decode(Bytes(IF lay.stream = "stdout" THEN stdout ELSE stderr))
        pieces == Split(text.val, "\n")
        at == IF lay.line_from_end THEN Len(pieces) - lay.line + 1 ELSE lay.line + 1
        l == pieces[at]
        shaped == /\ text.ok
                  /\ at \in 1..Len(pieces)
                  /\ Cardinality(WsTokenStarts(l)) >= lay.rt
                  /\ Float(WsTokenFromLast(l, lay.rt)).ok
                  /\ Float(WsTokenFromLast(l, lay.mf)).ok
    IN  IF shaped
        THEN [ok |-> TRUE, runtime |-> Float(WsTokenFromLast(l, lay.rt)).val,
              mflops |-> Float(WsTokenFromLast(l, lay.mf)).val]
        ELSE [ok |-> FALSE]

ExpectedWsOf == [v \in Variants, so \in TextIds, se \in TextIds |-> ExpectedWs(v, so, se)]

ExpectedWsNow == ExpectedWsOf[config.variant, out.stdout, out.stderr]

C15_WhitespaceSplit ==
    (OutIsMeasured /\ ExpectedWsNow.ok) =>
        /\ pc = "loop"
        /\ runtime_l = <<ExpectedWsNow.runtime>>
        /\ mflops_l = <<ExpectedWsNow.mflops>>

\* C16: a measured run that cannot be parsed ends core() with an outcome that
\* tells which kind of mismatch it was: one outcome when the line or the
\* token position of the rule does not exist, another one when the tokens
\* exist and one of them is no number, for every variant.
MismatchKind(variant, stdout, stderr) ==
    LET lay == LayoutOf(variant)
        text == Decode(Bytes(IF lay.stream = "stdout" THEN stdout ELSE stderr))
        pieces == Split(text.val, "\n")
        at == IF lay.line_from_end THEN Len(pieces) - lay.line + 1 ELSE lay.line + 1
        l == pieces[at]
    IN  IF ~text.ok THEN "undecodable"
        ELSE IF at \notin 1..Len(pieces) THEN "structural"
        ELSE IF Cardinality(TokenStarts(l)) < lay.rt THEN "structural"
        ELSE IF Float(TokenFromLast(l, lay.rt)).ok /\ Float(TokenFromLast(l, lay.mf)).ok
        THEN "none"
        ELSE "value"

MismatchKindOf ==
    [v \in Variants, so \in TextIds, se \in TextIds |-> MismatchKind(v, so, se)]

MismatchNow == MismatchKindOf[config.variant, out.stdout, out.stderr]

StructuralOutcome == "IndexError"
ValueOutcome == "ValueError"

C16_MismatchKindsDistinguished ==
    /\ StructuralOutcome /= ValueOutcome
    /\ OutIsMeasured =>
        /\ MismatchNow = "structural" => (pc = "error" /\ error.type = StructuralOutcome)
        /\ MismatchNow = "value" => (pc = "error" /\ error.type = ValueOutcome)
        /\ MismatchNow = "none" => error = NoError
    /\ \A class \in {CudaVariants, SccVariants, Variants \ (CudaVariants \cup SccVariants)} :
        \A v \in class :
            /\ \E so \in TextIds, se \in TextIds : MismatchKindOf[v, so, se] = "structural"
            /\ \E so \in TextIds, se \in TextIds : MismatchKindOf[v, so, se] = "value"

C16_Witness ==
    /\ OutIsMeasured
    /\ config.variant = "cuda-hoist"
    /\ MismatchNow = "value"
    /\ out.stdout = "HALF"
    /\ error.type = "ValueError"

\* C17: when to_csv fails, print_performance has already been called, once,
\* with all num_runs samples of the invocation, and has returned the four
\* statistics of these samples; the failure of to_csv is the error core() ends
\* with, and the file is left as it was.
C17_SinkFailureAfterSummary ==
    (pc = "error" /\ sink_calls /= <<>>) =>
        /\ error.type = "OSError"
        /\ Len(agg_calls) = 1
        /\ agg_calls[1] = <<config.num_cols, runtime_l, mflops_l>>
        /\ Len(runtime_l) = config.num_runs
        /\ Len(mflops_l) = config.num_runs
        /\ stats = PrintPerformance(config.num_cols, runtime_l, mflops_l)
        /\ Len(sink_calls) = 1
        /\ csv_file = <<PriorRow>>

C17_Witness ==
    /\ pc = "error"
    /\ sink_calls /= <<>>
    /\ config.num_runs = MaxRuns
    /\ Len(stats) = 4

C18_BlocksUntilChildExits ==
    /\ <>(pc \in {"done", "error"})
    /\ [](Len(spawned) <= 1 + config.num_runs)
    /\ [][(pc = "warmup_wait" \/ pc = "run_wait") =>
            (/\ spawned' = spawned
             /\ agg_calls' = agg_calls
             /\ sink_calls' = sink_calls
             /\ csv_file' = csv_file
             /\ pc' \in {"loop", "error"})]_vars
    /\ [][(spawned' /= spawned) => (pc' = "warmup_wait" \/ pc' = "run_wait")]_vars

C18_Witness ==
    /\ pc = "done"
    /\ config.num_runs = MaxRuns
    /\ Len(spawned) = 1 + MaxRuns

\* C12: in the sweep a failure of _main ends main(): nothing is printed and
\* no configuration is started afterwards, the "end" line of the failing
\* configuration is never printed, and every configuration completed before
\* has had its "start" line printed and then its "end" line; no configuration
\* is started twice.
SameConfiguration(m, n) ==
    /\ m.variant = n.variant
    /\ m.build_type = n.build_type
    /\ m.precision = n.precision

C12_FailureHaltsSweep ==
    [][/\ sweep_pc /= "failed"
       /\ (sweep_pc = "call" /\ pc' = "error") => printed' = printed
       /\ (sweep_pc = "call" /\ pc = "error") =>
            (/\ sweep_pc' = "failed"
             /\ printed' = printed
             /\ printed /= <<>>
             /\ printed[Len(printed)].phase = "start"
             /\ printed[Len(printed)].variant = config.variant
             /\ printed[Len(printed)].precision = config.precision)
       /\ \A n \in 1..Len(printed') :
            /\ printed'[n].phase = IF n % 2 = 1 THEN "start" ELSE "end"
            /\ n % 2 = 0 => SameConfiguration(printed'[n], printed'[n - 1])
            /\ \A m \in 1..(n - 2) : ~SameConfiguration(printed'[m], printed'[n])
       /\ SubSeq(printed', 1, Len(printed)) = printed]_vars

C12_Witness ==
    /\ sweep_pc = "failed"
    /\ pc = "error"
    /\ error.type = "ValueError"
    /\ Len(printed) = 3
    /\ printed[3].phase = "start"
====
